---- MODULE Spec2Model ----
(***************************************************************************)
(* SerialMux.py: one physical serial device multiplexed over pseudo-       *)
(* terminal endpoints.  The model follows the main thread of SerialMux.py  *)
(* statement group by statement group (pc), the file-descriptor table of   *)
(* the process, the published symlinks, and the environment the program    *)
(* talks to: the device, the clients on the peer side of each PTY, and the *)
(* termination signal whose handler (cleanup) runs between two steps of    *)
(* the main thread.                                                        *)
(***************************************************************************)
EXTENDS Integers, Sequences, FiniteSets, TLC

\* ---------------------------------------------------------------- bounds
\* events of the environment over a run: a chunk emitted by the device, a
\* client opening a path, a byte written by a client, the device being
\* unplugged, an I/O call failing with an error
MaxEvents == 2

\* ------------------------------------------------------- program constants
\* os.read(fd, 4096) in the dispatch step
CHUNK == 4096
\* os.read(fd, 1) in the probe step
PROBE == 1
\* first descriptor above stdin/stdout/stderr
FirstFd == 3
\* len(VPORTS)
NumVports == 3

\* VPORTS: the configured paths, by position
VPORTS == 1..NumVports

\* descriptors the process can hold: the device, one controller per
\* endpoint, and the two sides of the pair being allocated
Fds == FirstFd..(FirstFd + NumVports + 2)

\* the device emits the bytes 1, 2, 3, ... two at a time; DevChunk(n) is the
\* chunk it emits once n bytes have been read from it
DevChunk(n) == <<n + 1, n + 2>>
\* the k-th byte the clients write
ClientByte(k) == 100 + k

VARIABLES
  pc,                \* position of the main thread
  ser,               \* the serial.Serial object: "none", "open", "stale", "closed"
  ser_handle,        \* descriptor of the Serial object (0 when it has none)
  devPresent,        \* the physical device is plugged in
  fdtab,             \* descriptor table: <<"free", 0>>, <<"ser", 0>>, <<"m", i>>, <<"s", i>>
  links,             \* links[i]: a symlink is published at VPORTS[i]
  vports,            \* the list of endpoint records
  global_vports,     \* _active_vports: "empty" or "vports" (the same list object)
  cur,               \* loop index (startup comprehension, probe loop, sweep loop)
  master, slave,     \* locals of create_vport
  ser_fd,            \* main: ser_fd
  active_vports,     \* main: active_vports (positions of the records in it)
  watch_fds,         \* main: watch_fds
  readable,          \* main: the part of readable still to process
  bytes_from_device, bytes_to_device,
  client,            \* client[i]: a client holds the peer side of endpoint i open
  pending,           \* pending[i]: bytes written by clients, not yet read by the mux
  pty_out,           \* pty_out[i]: bytes written to the controller of the current PTY i
  dev_out,           \* bytes written to the device
  exit_status,       \* -1 while running, else the exit status
  hist               \* history of the run (for the properties only)

vars == <<pc, ser, ser_handle, devPresent, fdtab, links, vports, global_vports,
          cur, master, slave, ser_fd, active_vports, watch_fds, readable,
          bytes_from_device, bytes_to_device, client, pending, pty_out,
          dev_out, exit_status, hist>>

\* --------------------------------------------------------------- helpers
Min(S) == CHOOSE x \in S : \A y \in S : x <= y

Take(s, n) == IF Len(s) <= n THEN s ELSE SubSeq(s, 1, n)
Drop(s, n) == IF Len(s) <= n THEN <<>> ELSE SubSeq(s, n + 1, Len(s))

\* the subsequence of s at the positions in P
RECURSIVE SelectAt(_, _, _)
SelectAt(s, P, k) ==
  IF k > Len(s) THEN <<>>
  ELSE (IF k \in P THEN <<s[k]>> ELSE <<>>) \o SelectAt(s, P, k + 1)

IsOpen(tab, fd) == fd \in Fds /\ tab[fd][1] # "free"
IsMaster(tab, fd) == fd \in Fds /\ tab[fd][1] = "m"
Free == <<"free", 0>>
FreeFds(tab) == {fd \in Fds : tab[fd] = Free}
OpenMasters(tab) == {fd \in Fds : IsMaster(tab, fd)}
\* endpoint positions whose PTY has an open controller side
LivePtys(tab) == {i \in VPORTS : \E fd \in Fds : tab[fd] = <<"m", i>>}

\* os.close(fd): closes whatever the number names; EBADF is swallowed by callers
OsClose(tab, fd) == IF IsOpen(tab, fd) THEN [tab EXCEPT ![fd] = Free] ELSE tab

\* the PTY of an endpoint is gone once its controller side is closed
PtyReset(f, tab, empty) == [i \in VPORTS |-> IF i \in LivePtys(tab) THEN f[i] ELSE empty]

CanFault == hist.events < MaxEvents
Fault(h) == [h EXCEPT !.events = @ + 1]

\* ------------------------------------------------------------------ Init
NoFds == [fd \in Fds |-> Free]

NoWrites == [i \in VPORTS |-> "none"]

Init ==
  /\ pc = "open_serial"
  /\ ser = "none" /\ ser_handle = 0
  /\ devPresent \in BOOLEAN
  /\ fdtab = NoFds
  /\ links \in {[i \in VPORTS |-> b] : b \in BOOLEAN}   \* aliases of an earlier run
  /\ vports = <<>>
  /\ global_vports = "empty"
  /\ cur = 1 /\ master = 0 /\ slave = 0
  /\ ser_fd = -1 /\ active_vports = {} /\ watch_fds = <<>> /\ readable = <<>>
  /\ bytes_from_device = 0 /\ bytes_to_device = 0
  /\ client = [i \in VPORTS |-> FALSE]
  /\ pending = [i \in VPORTS |-> <<>>]
  /\ pty_out = [i \in VPORTS |-> <<>>]
  /\ dev_out = <<>>
  /\ exit_status = -1
  /\ hist = [events |-> 0, cbytes |-> 0, read_log |-> <<>>, dead_io |-> FALSE,
             wres |-> NoWrites, cause |-> "none", at |-> "none",
             idled |-> {}, fwd |-> {}, dread |-> 0, dwritten |-> 0]

Running == pc \notin {"exited", "crashed"}

\* The main thread looks at the device and at the clients in open_serial, in
\* select and in its reads and writes; a step of the environment taken while
\* it creates or recreates an endpoint is seen no earlier than one taken
\* right after, so the environment moves only between the steps that look.
Observing == pc \in {"open_serial", "reconnect", "wait", "dispatch", "probe"}

\* an exception nobody catches ends the interpreter with status 1; no handler runs
Crash(why) ==
  /\ pc' = "crashed"
  /\ exit_status' = 1
  /\ hist' = [hist EXCEPT !.events = @ + 1, !.cause = why, !.at = pc,
                          !.idled = {}, !.fwd = {}]
  /\ cur' = 1 /\ master' = 0 /\ slave' = 0
  /\ ser_fd' = -1 /\ active_vports' = {} /\ watch_fds' = <<>> /\ readable' = <<>>

\* ------------------------------------------------- the order of steps 4 and 5
\* the first position of S from k on, 0 when there is none
FirstFrom(S, k) == IF \E i \in S : i >= k THEN Min({i \in S : i >= k}) ELSE 0

\* step 4: if v['alive'] and v['idle']
Probed(v) == v.alive /\ v.idle

\* a sweep that passes over the records that died while Active
NeedsRecreate_IdleOnly(v) == ~v.alive /\ v.idle

\* step 5: if not v['alive']
NeedsRecreate(v) == ~v.alive

\* the sweep loop from position k on: the next record to recreate, or the
\* top of the while loop (_active_vports = vports and the stats change nothing)
ToSweep(vp, k) ==
  LET i == FirstFrom({j \in 1..Len(vp) : NeedsRecreate(vp[j])}, k) IN
    IF i # 0 THEN <<"sweep", i>> ELSE <<"wait", 1>>

\* step 4 when some record is to be probed, else the sweep
ToProbe(vp) ==
  IF \E j \in 1..Len(vp) : Probed(vp[j]) THEN <<"probe", 1>> ELSE ToSweep(vp, 1)

Goto(to) == pc' = to[1] /\ cur' = to[2]

\* ------------------------------------------------------------ open_serial
\* a reconnection that goes back to the top of the while loop
AfterOpen_FromTop(p, vp) == IF p = "open_serial" THEN <<"cv_unlink", 1>> ELSE <<"wait", 1>>

\* where main continues once open_serial returns: the endpoint creation at
\* startup, step 4 after the break out of the dispatch loop
AfterOpen(p, vp) == IF p = "open_serial" THEN <<"cv_unlink", 1>> ELSE ToProbe(vp)

\* one turn of the while True loop of open_serial whose open succeeds
open_serial_ok ==
  /\ pc \in {"open_serial", "reconnect"}
  /\ devPresent
  /\ LET fd == Min(FreeFds(fdtab)) IN
       /\ fdtab' = [fdtab EXCEPT ![fd] = <<"ser", 0>>]
       /\ ser_handle' = fd
  /\ ser' = "open"
  /\ Goto(AfterOpen(pc, vports))
  /\ UNCHANGED <<devPresent, links, vports, global_vports, master, slave, ser_fd,
                 active_vports, watch_fds, readable, bytes_from_device,
                 bytes_to_device, client, pending, pty_out, dev_out, exit_status, hist>>

\* an open_serial that gives up on a failed open and returns no handle
open_serial_retry_GivesUp ==
  /\ pc \in {"open_serial", "reconnect"}
  /\ ~devPresent
  /\ Goto(AfterOpen(pc, vports))
  /\ UNCHANGED <<ser, ser_handle, devPresent, fdtab, links, vports, global_vports,
                 master, slave, ser_fd, active_vports, watch_fds, readable,
                 bytes_from_device, bytes_to_device, client, pending, pty_out,
                 dev_out, exit_status, hist>>

\* one turn whose open raises SerialException: log, sleep(2), try again
open_serial_retry ==
  /\ pc \in {"open_serial", "reconnect"}
  /\ ~devPresent
  /\ UNCHANGED vars

\* ----------------------------------------------------------- create_vport
InStartup == global_vports = "empty"

\* if os.path.islink(path): os.unlink(path)
cv_unlink ==
  /\ pc = "cv_unlink"
  /\ links' = [links EXCEPT ![cur] = FALSE]
  /\ pc' = "cv_openpty"
  /\ UNCHANGED <<ser, ser_handle, devPresent, fdtab, vports, global_vports, cur,
                 master, slave, ser_fd, active_vports, watch_fds, readable,
                 bytes_from_device, bytes_to_device, client, pending, pty_out,
                 dev_out, exit_status, hist>>

\* master, slave = os.openpty(): the two lowest free descriptors
cv_openpty ==
  /\ pc = "cv_openpty"
  /\ \/ /\ LET m == Min(FreeFds(fdtab))
               s == Min(FreeFds(fdtab) \ {m}) IN
             /\ master' = m /\ slave' = s
             /\ fdtab' = [fdtab EXCEPT ![m] = <<"m", cur>>, ![s] = <<"s", cur>>]
        /\ client' = [client EXCEPT ![cur] = FALSE]
        /\ pending' = [pending EXCEPT ![cur] = <<>>]
        /\ pty_out' = [pty_out EXCEPT ![cur] = <<>>]
        /\ pc' = "cv_symlink"
        /\ UNCHANGED <<exit_status, hist, cur, ser_fd, active_vports, watch_fds,
                       readable>>
     \/ /\ CanFault                      \* OSError out of openpty
        /\ Crash("openpty")
        /\ UNCHANGED <<fdtab, client, pending, pty_out>>
  /\ UNCHANGED <<ser, ser_handle, devPresent, links, vports, global_vports,
                 bytes_from_device, bytes_to_device, dev_out>>

\* tty.setraw, os.ttyname, os.chmod, os.symlink(slave_name, path)
cv_symlink ==
  /\ pc = "cv_symlink"
  /\ \/ /\ links' = [links EXCEPT ![cur] = TRUE]
        /\ pc' = "cv_finish"
        /\ UNCHANGED <<exit_status, hist, cur, master, slave, ser_fd,
                       active_vports, watch_fds, readable>>
     \/ /\ CanFault                      \* OSError out of chmod or symlink
        /\ Crash("symlink")
        /\ UNCHANGED links
  /\ UNCHANGED <<ser, ser_handle, devPresent, fdtab, vports, global_vports,
                 bytes_from_device, bytes_to_device, client, pending, pty_out, dev_out>>

\* the record create_vport returns
NewVport(m) == [master_fd |-> m, alive |-> TRUE, idle |-> TRUE]

\* os.close(slave); O_NONBLOCK on master; return the record (the locals of
\* create_vport end here).  At startup the record joins the list the
\* comprehension builds, in the sweep it replaces vports[i].
cv_finish ==
  /\ pc = "cv_finish"
  /\ fdtab' = OsClose(fdtab, slave)
  /\ master' = 0 /\ slave' = 0
  /\ IF InStartup
       THEN /\ vports' = Append(vports, NewVport(master))
            /\ IF cur < NumVports
                 THEN pc' = "cv_unlink" /\ cur' = cur + 1
                 ELSE pc' = "publish" /\ cur' = 1
       ELSE /\ vports' = [vports EXCEPT ![cur] = NewVport(master)]
            /\ Goto(ToSweep(vports', cur + 1))
  /\ UNCHANGED <<ser, ser_handle, devPresent, links, global_vports,
                 ser_fd, active_vports, watch_fds, readable,
                 bytes_from_device, bytes_to_device, client, pending, pty_out,
                 dev_out, exit_status, hist>>

\* vports = [...]; _active_vports = vports
publish ==
  /\ pc = "publish"
  /\ global_vports' = "vports"
  /\ pc' = "wait"
  /\ UNCHANGED <<ser, ser_handle, devPresent, fdtab, links, vports, cur, master,
                 slave, ser_fd, active_vports, watch_fds, readable,
                 bytes_from_device, bytes_to_device, client, pending, pty_out,
                 dev_out, exit_status, hist>>

\* --------------------------------------------- step 5: recreate dead vports
\* a recreation that keeps the old controller handle open
RecreateClose_Skip(tab, old_fd) == tab

\* try: os.close(old_fd) except OSError: pass
RecreateClose(tab, old_fd) == OsClose(tab, old_fd)

\* recreate_vport(v): os.close(old_fd), then create_vport(path)
recreate_vport ==
  /\ pc = "sweep"
  /\ NeedsRecreate(vports[cur])
  /\ LET tab == RecreateClose(fdtab, vports[cur].master_fd) IN
       /\ fdtab' = tab
       /\ client' = PtyReset(client, tab, FALSE)
       /\ pending' = PtyReset(pending, tab, <<>>)
       /\ pty_out' = PtyReset(pty_out, tab, <<>>)
  /\ pc' = "cv_unlink"
  /\ UNCHANGED <<ser, ser_handle, devPresent, links, vports, global_vports, cur,
                 master, slave, ser_fd, active_vports, watch_fds, readable,
                 bytes_from_device, bytes_to_device, dev_out, exit_status, hist>>

\* ------------------------------------------- step 1 and 2: wait for readiness
\* ser.fileno(), -1 when it raises
SerFileno(s, h) == IF s \in {"open", "stale"} THEN h ELSE -1

\* a wait set that leaves out the idle test
ActiveVports_AllAlive(vp) == {i \in 1..Len(vp) : vp[i].alive}

\* active_vports = [v for v in vports if v['alive'] and not v['idle']]
ActiveVports(vp) == {i \in 1..Len(vp) : vp[i].alive /\ ~vp[i].idle}

\* [v['master_fd'] for v in active], in list order
RECURSIVE MasterFds(_, _, _)
MasterFds(vp, A, k) ==
  IF k > Len(vp) THEN <<>>
  ELSE (IF k \in A THEN <<vp[k].master_fd>> ELSE <<>>) \o MasterFds(vp, A, k + 1)

\* watch_fds = [ser_fd] + masters if ser_fd >= 0 else masters
WatchFds(sfd, vp, A) ==
  IF sfd >= 0 THEN <<sfd>> \o MasterFds(vp, A, 1) ELSE MasterFds(vp, A, 1)

\* ser_fd, active_vports, watch_fds and readable are assigned at the top of
\* every iteration and read in step 3 only: outside of it they hold nothing
NoLocals ==
  /\ ser_fd' = -1
  /\ active_vports' = {}
  /\ watch_fds' = <<>>
  /\ readable' = <<>>

\* select.select returns some of the watched descriptors, in the order given
wait_select ==
  /\ pc = "wait"
  /\ LET sfd == SerFileno(ser, ser_handle)
         act == ActiveVports(vports)
         w   == WatchFds(sfd, vports, act) IN
       /\ ser_fd' = sfd
       /\ active_vports' = act
       /\ watch_fds' = w
       /\ \E P \in SUBSET (1..Len(w)) : readable' = SelectAt(w, P, 1)
  /\ pc' = "dispatch"
  /\ UNCHANGED <<ser, ser_handle, devPresent, fdtab, links, vports, global_vports,
                 cur, master, slave, bytes_from_device, bytes_to_device,
                 client, pending, pty_out, dev_out, exit_status, hist>>

\* select raises EINTR: continue, and the top of the loop assigns the same
\* locals again
wait_eintr ==
  /\ pc = "wait"
  /\ UNCHANGED vars

\* select raises another OSError: raise, out of main
wait_error ==
  /\ pc = "wait"
  /\ CanFault
  /\ Crash("select")
  /\ UNCHANGED <<ser, ser_handle, devPresent, fdtab, links, vports, global_vports,
                 bytes_from_device, bytes_to_device, client, pending,
                 pty_out, dev_out>>

\* ------------------------------------------------ step 3: the device is readable
\* the for loop over readable goes on with rest, or is over and step 4 follows
Continue(rest, vp) ==
  IF rest # <<>>
    THEN /\ readable' = rest
         /\ UNCHANGED <<pc, cur, ser_fd, active_vports, watch_fds>>
    ELSE /\ NoLocals
         /\ Goto(ToProbe(vp))

\* readable is empty: the body of the for loop never runs
dispatch_none ==
  /\ pc = "dispatch" /\ readable = <<>>
  /\ Continue(<<>>, vports)
  /\ UNCHANGED <<ser, ser_handle, devPresent, fdtab, links, vports, global_vports,
                 master, slave, bytes_from_device, bytes_to_device, client,
                 pending, pty_out, dev_out, exit_status, hist>>

\* the result of os.write(v['master_fd'], data) on one endpoint
WriteOutcomes == {"ok", "partial", "EAGAIN", "EIO", "OTHER"}

\* what os.write puts on the PTY: all of data, a proper prefix (the count it
\* returns is not looked at), or nothing when it raises
Written(o, d) ==
  IF o = "ok" THEN d
  ELSE IF o = "partial" THEN Take(d, Len(d) - 1)
  ELSE <<>>

\* a broadcast that leaves out the idle endpoints
BroadcastTargets_ActiveOnly(vp) == {i \in 1..Len(vp) : vp[i].alive /\ ~vp[i].idle}

\* for v in [v for v in vports if v['alive']]
BroadcastTargets(vp) == {i \in 1..Len(vp) : vp[i].alive}

\* an errno test that leaves out EIO
AliveAfterWrite_EioDead(o) == o \in {"ok", "partial", "EAGAIN"}

\* except OSError: EAGAIN and EIO are skipped, anything else marks dead
AliveAfterWrite(o) == o \in {"ok", "partial", "EAGAIN", "EIO"}

\* a reconnect that forgets ser.close()
SerialClose_Leak(tab, h) == tab

\* ser.close() in the except branches
SerialClose(tab, h) == OsClose(tab, h)

\* except (SerialException, OSError): ser.close(), open_serial(...), break
Reconnect ==
  /\ fdtab' = SerialClose(fdtab, ser_handle)
  /\ ser' = "closed"
  /\ pc' = "reconnect"
  /\ cur' = 1
  /\ NoLocals

\* ser.read raises: close, reconnect, break
device_read_fail ==
  /\ pc = "dispatch" /\ readable # <<>> /\ Head(readable) = ser_fd
  /\ ser = "stale"
  /\ Reconnect
  /\ UNCHANGED <<ser_handle, devPresent, links, vports, global_vports, master,
                 slave, bytes_from_device, bytes_to_device, client, pending,
                 pty_out, dev_out, exit_status, hist>>

\* ser.read returns nothing: continue
device_read_empty ==
  /\ pc = "dispatch" /\ readable # <<>> /\ Head(readable) = ser_fd
  /\ ser = "open"
  /\ Continue(Tail(readable), vports)
  /\ UNCHANGED <<ser, ser_handle, devPresent, fdtab, links, vports,
                 global_vports, master, slave, bytes_from_device,
                 bytes_to_device, client, pending, pty_out, dev_out,
                 exit_status, hist>>

\* ser.read returns a chunk (data): count it, write it to every alive endpoint
device_read_broadcast ==
  /\ pc = "dispatch" /\ readable # <<>> /\ Head(readable) = ser_fd
  /\ ser = "open"
  /\ CanFault
  /\ \E o \in [VPORTS -> WriteOutcomes \cup {"none"}] :
       LET d == DevChunk(bytes_from_device)
           T == BroadcastTargets(vports)
           bad == {i \in T : o[i] # "ok"} IN
         /\ \A i \in VPORTS : o[i] = "none" <=> i \notin T
         /\ hist.events + 1 + Cardinality(bad) <= MaxEvents
         /\ bytes_from_device' = bytes_from_device + Len(d)
         /\ pty_out' = [i \in VPORTS |->
                          IF i \in T THEN pty_out[i] \o Written(o[i], d) ELSE pty_out[i]]
         /\ vports' = [i \in VPORTS |->
                         IF i \in T THEN [vports[i] EXCEPT !.alive = AliveAfterWrite(o[i])]
                         ELSE vports[i]]
         /\ hist' = [hist EXCEPT !.events = @ + 1 + Cardinality(bad),
                                 !.dread = @ + Len(d),
                                 !.dead_io = @ \/ \E i \in T : ~vports[i].alive,
                                 !.wres = o]
  /\ Continue(Tail(readable), vports')
  /\ UNCHANGED <<ser, ser_handle, devPresent, fdtab, links, global_vports,
                 master, slave, bytes_to_device, client, pending, dev_out,
                 exit_status>>

\* ---------------------------------------------- step 3: an endpoint is readable
\* what os.read(fd, n) can do on the controller side of endpoint j's PTY
PtyRead(j, n) ==
  (IF pending[j] # <<>> THEN {[kind |-> "data", bytes |-> Take(pending[j], n)]}
   ELSE IF client[j] THEN {[kind |-> "EAGAIN", bytes |-> <<>>]}
   ELSE {[kind |-> "EIO", bytes |-> <<>>], [kind |-> "EOF", bytes |-> <<>>]})
  \cup (IF CanFault THEN {[kind |-> "EINTR", bytes |-> <<>>],
                          [kind |-> "OTHER", bytes |-> <<>>]}
        ELSE {})

\* what os.read(fd, n) can do on descriptor fd
OsRead(fd, n) ==
  IF IsMaster(fdtab, fd) THEN PtyRead(fdtab[fd][2], n)
  ELSE {[kind |-> "OTHER", bytes |-> <<>>]}

IsFault(r) == r.kind \in {"EINTR", "OTHER"}

\* the bytes a read takes out of the PTY
Consume(fd, r) ==
  IF r.kind = "data"
    THEN [pending EXCEPT ![fdtab[fd][2]] = Drop(@, Len(r.bytes))]
    ELSE pending

\* next((v for v in active_vports if v['master_fd'] == fd), None): 0 for None
Lookup(A, vp, fd) ==
  IF \E i \in A : vp[i].master_fd = fd
    THEN Min({i \in A : vp[i].master_fd = fd})
    ELSE 0

\* the record after a dispatch read that did not return data
AfterDispatchRead(v, kind) ==
  IF kind \in {"EOF", "EIO"} THEN [v EXCEPT !.idle = TRUE]
  ELSE IF kind \in {"EAGAIN", "EINTR"} THEN v
  ELSE [v EXCEPT !.alive = FALSE]

\* history: the endpoints whose chunk reached the device in the iteration
\* under way, as long as its for loop has descriptors left
StillForwarding(F, rest) == IF rest = <<>> THEN {} ELSE F

\* history: the record went from Alive, Active to Alive, Idle
WentIdle(v, w) == v.alive /\ ~v.idle /\ w.alive /\ w.idle

\* v is None, os.read returns no data, or os.read raises: the record goes
\* idle, stays as it is or goes dead; continue
endpoint_read_nodata ==
  /\ pc = "dispatch" /\ readable # <<>> /\ Head(readable) # ser_fd
  /\ LET fd == Head(readable)
         i  == Lookup(active_vports, vports, fd) IN
       IF i = 0
         THEN /\ UNCHANGED vports
              /\ hist' = [hist EXCEPT !.fwd = StillForwarding(@, Tail(readable))]
         ELSE \E r \in OsRead(fd, CHUNK) :
                /\ r.kind # "data"
                /\ vports' = [vports EXCEPT ![i] = AfterDispatchRead(@, r.kind)]
                /\ hist' = [hist EXCEPT !.events = IF IsFault(r) THEN @ + 1 ELSE @,
                                        !.dead_io = @ \/ ~vports[i].alive,
                                        !.idled = IF WentIdle(vports[i], vports'[i])
                                                    THEN @ \cup {i} ELSE @,
                                        !.fwd = StillForwarding(@, Tail(readable))]
  /\ Continue(Tail(readable), vports')
  /\ UNCHANGED <<ser, ser_handle, devPresent, fdtab, links, global_vports,
                 master, slave, bytes_from_device, bytes_to_device, client,
                 pending, pty_out, dev_out, exit_status>>

\* a break after the first chunk written to the device
AfterForward_Break(rest) == <<>>

\* after ser.write(data) returns the for loop goes on with the descriptors left
AfterForward(rest) == rest

\* ser.write(data) succeeds on an open device
SerWriteOk(s) == s = "open"

\* os.read returns a chunk (data): count it, write it to the device; when the
\* write raises: close, reconnect, break
endpoint_read_forward ==
  /\ pc = "dispatch" /\ readable # <<>> /\ Head(readable) # ser_fd
  /\ LET fd == Head(readable)
         i  == Lookup(active_vports, vports, fd) IN
       /\ i # 0
       /\ \E r \in OsRead(fd, CHUNK) :
            /\ r.kind = "data"
            /\ pending' = Consume(fd, r)
            /\ bytes_to_device' = bytes_to_device + Len(r.bytes)
            /\ hist' = [hist EXCEPT !.read_log = @ \o r.bytes,
                                    !.dead_io = @ \/ ~vports[i].alive,
                                    !.fwd = IF SerWriteOk(ser)
                                              THEN StillForwarding(@ \cup {i},
                                                     AfterForward(Tail(readable)))
                                              ELSE {},
                                    !.dwritten = IF SerWriteOk(ser)
                                                   THEN @ + Len(r.bytes) ELSE @]
            /\ IF SerWriteOk(ser)
                 THEN /\ dev_out' = dev_out \o r.bytes
                      /\ Continue(AfterForward(Tail(readable)), vports)
                      /\ UNCHANGED <<ser, fdtab>>
                 ELSE /\ Reconnect
                      /\ UNCHANGED dev_out
  /\ UNCHANGED <<ser_handle, devPresent, links, vports, global_vports, master,
                 slave, bytes_from_device, client, pty_out, exit_status>>

\* ------------------------------------------------ step 4: probe idle vports
\* the record after os.read(v['master_fd'], 1): a return without exception
\* (bytes or none) and EAGAIN clear idle, EIO changes nothing, anything else
\* marks dead
AfterProbe(v, kind) ==
  IF kind \in {"data", "EOF", "EAGAIN"} THEN [v EXCEPT !.idle = FALSE]
  ELSE IF kind = "EIO" THEN v
  ELSE [v EXCEPT !.alive = FALSE]

NoRead == [kind |-> "none", bytes |-> <<>>]

\* for v in vports: each alive, idle record is probed once, in list order;
\* a probe touches its own record and its own PTY only
probe_idle ==
  /\ pc = "probe"
  /\ \E r \in [VPORTS -> UNION {OsRead(vports[i].master_fd, PROBE) : i \in VPORTS}
                          \cup {NoRead}] :
       LET bad == {i \in VPORTS : IsFault(r[i])} IN
         /\ \A i \in VPORTS :
              IF Probed(vports[i])
                THEN r[i] \in OsRead(vports[i].master_fd, PROBE)
                ELSE r[i] = NoRead
         /\ hist.events + Cardinality(bad) <= MaxEvents
         /\ vports' = [i \in VPORTS |->
                         IF Probed(vports[i]) THEN AfterProbe(vports[i], r[i].kind)
                         ELSE vports[i]]
         /\ pending' = [i \in VPORTS |->
                          IF r[i].kind = "data" THEN Drop(pending[i], Len(r[i].bytes))
                          ELSE pending[i]]
         /\ hist' = [hist EXCEPT !.events = @ + Cardinality(bad), !.idled = {}]
  /\ Goto(ToSweep(vports', 1))
  /\ UNCHANGED <<ser, ser_handle, devPresent, fdtab, links, global_vports,
                 master, slave, ser_fd, active_vports, watch_fds, readable,
                 bytes_from_device, bytes_to_device, client, pty_out, dev_out,
                 exit_status>>

\* -------------------------------------------------- cleanup (SIGTERM, SIGINT)
\* the records cleanup walks: those of _active_vports
CleanupFds(g, vp) == IF g = "vports" THEN {vp[i].master_fd : i \in 1..Len(vp)} ELSE {}

\* os.close on every descriptor of F
CloseAll(tab, F) == [fd \in Fds |-> IF fd \in F THEN Free ELSE tab[fd]]

\* for path in VPORTS: if os.path.islink(path): os.unlink(path)
CleanupLinks(l) == [i \in VPORTS |-> FALSE]

\* the handler runs between two steps of the main thread and ends in
\* sys.exit(0), which nothing in main catches
cleanup ==
  /\ Running
  /\ LET tab == CloseAll(fdtab, CleanupFds(global_vports, vports)) IN
       /\ fdtab' = tab
       /\ client' = PtyReset(client, tab, FALSE)
       /\ pending' = PtyReset(pending, tab, <<>>)
       /\ pty_out' = PtyReset(pty_out, tab, <<>>)
  /\ links' = CleanupLinks(links)
  /\ pc' = "exited"
  /\ exit_status' = 0
  /\ hist' = [hist EXCEPT !.cause = "signal", !.at = pc,
                          !.idled = {}, !.fwd = {}]
  /\ cur' = 1 /\ master' = 0 /\ slave' = 0
  /\ NoLocals
  /\ UNCHANGED <<ser, ser_handle, devPresent, vports, global_vports,
                 bytes_from_device, bytes_to_device, dev_out>>

\* ------------------------------------------------------------ environment
Unplug ==
  /\ Observing
  /\ devPresent
  /\ CanFault
  /\ devPresent' = FALSE
  /\ ser' = IF ser = "open" THEN "stale" ELSE ser
  /\ hist' = Fault(hist)
  /\ UNCHANGED <<pc, ser_handle, fdtab, links, vports, global_vports, cur, master,
                 slave, ser_fd, active_vports, watch_fds, readable,
                 bytes_from_device, bytes_to_device, client, pending, pty_out,
                 dev_out, exit_status>>

Replug ==
  /\ Observing
  /\ ~devPresent
  /\ devPresent' = TRUE
  /\ UNCHANGED <<pc, ser, ser_handle, fdtab, links, vports, global_vports, cur,
                 master, slave, ser_fd, active_vports, watch_fds, readable,
                 bytes_from_device, bytes_to_device, client, pending, pty_out,
                 dev_out, exit_status, hist>>

\* a client opens the published path of endpoint i
ClientOpen(i) ==
  /\ Observing
  /\ links[i] /\ i \in LivePtys(fdtab)
  /\ ~client[i]
  /\ CanFault
  /\ client' = [client EXCEPT ![i] = TRUE]
  /\ hist' = Fault(hist)
  /\ UNCHANGED <<pc, ser, ser_handle, devPresent, fdtab, links, vports,
                 global_vports, cur, master, slave, ser_fd, active_vports,
                 watch_fds, readable, bytes_from_device, bytes_to_device,
                 pending, pty_out, dev_out, exit_status>>

\* the client of endpoint i writes one byte
ClientWrite(i) ==
  /\ Observing
  /\ client[i]
  /\ CanFault
  /\ pending' = [pending EXCEPT ![i] = Append(@, ClientByte(hist.cbytes + 1))]
  /\ hist' = [hist EXCEPT !.cbytes = @ + 1, !.events = @ + 1]
  /\ UNCHANGED <<pc, ser, ser_handle, devPresent, fdtab, links, vports,
                 global_vports, cur, master, slave, ser_fd, active_vports,
                 watch_fds, readable, bytes_from_device, bytes_to_device,
                 client, pty_out, dev_out, exit_status>>

\* a client opens the published path of endpoint i and writes one byte at
\* once, before the main thread looks again
ClientOpenWrite(i) ==
  /\ Observing
  /\ links[i] /\ i \in LivePtys(fdtab)
  /\ ~client[i]
  /\ CanFault
  /\ client' = [client EXCEPT ![i] = TRUE]
  /\ pending' = [pending EXCEPT ![i] = Append(@, ClientByte(hist.cbytes + 1))]
  /\ hist' = [hist EXCEPT !.cbytes = @ + 1, !.events = @ + 1]
  /\ UNCHANGED <<pc, ser, ser_handle, devPresent, fdtab, links, vports,
                 global_vports, cur, master, slave, ser_fd, active_vports,
                 watch_fds, readable, bytes_from_device, bytes_to_device,
                 pty_out, dev_out, exit_status>>

\* the client of endpoint i closes its side
ClientClose(i) ==
  /\ Observing
  /\ client[i]
  /\ client' = [client EXCEPT ![i] = FALSE]
  /\ UNCHANGED <<pc, ser, ser_handle, devPresent, fdtab, links, vports,
                 global_vports, cur, master, slave, ser_fd, active_vports,
                 watch_fds, readable, bytes_from_device, bytes_to_device,
                 pending, pty_out, dev_out, exit_status, hist>>

\* ----------------------------------------------------------- specification
Main ==
  \/ open_serial_ok \/ open_serial_retry
  \/ cv_unlink \/ cv_openpty \/ cv_symlink \/ cv_finish \/ publish
  \/ wait_select \/ wait_eintr \/ wait_error
  \/ dispatch_none \/ device_read_fail \/ device_read_empty \/ device_read_broadcast
  \/ endpoint_read_nodata \/ endpoint_read_forward
  \/ probe_idle
  \/ recreate_vport

Env ==
  \/ Unplug \/ Replug
  \/ \E i \in VPORTS : ClientOpen(i)
  \/ \E i \in VPORTS : ClientWrite(i)
  \/ \E i \in VPORTS : ClientOpenWrite(i)
  \/ \E i \in VPORTS : ClientClose(i)

Next == Main \/ cleanup \/ Env

Spec == Init /\ [][Next]_vars

\* the while True loop of open_serial tries again after every sleep(2): an
\* open that stays possible is made
FairSpec == Spec /\ WF_vars(open_serial_ok)

\* ============================================================== properties
Range(q) == {q[k] : k \in 1..Len(q)}
Prefixes(d) == {SubSeq(d, 1, n) : n \in 0..Len(d)}
AllAlive == \A i \in 1..Len(vports) : vports[i].alive
\* a step of the main thread that reads a chunk from the device
ChunkRead == bytes_from_device' # bytes_from_device

\* C1 (as stated): every chunk read from the device is appended, whole, to the
\* stream of every endpoint that is Alive when it is read, whatever the
\* outcome of the write on that endpoint.
C1_BroadcastEveryOutcome ==
  [][ChunkRead =>
        \A i \in VPORTS :
          vports[i].alive => pty_out'[i] = pty_out[i] \o DevChunk(bytes_from_device)]_vars

\* C1 (amended): for every chunk read from the device one write of that chunk
\* is made on each endpoint Alive at that moment, Idle ones included, and on
\* no Dead one; an endpoint whose write succeeds in full has exactly the chunk
\* appended to its stream, one whose write is short gets a proper prefix of
\* it, one whose write raises gets nothing of it, and the stream of an
\* endpoint that is not written stays as it is.
C1_BroadcastFidelity ==
  [][ChunkRead =>
        \A i \in VPORTS :
          LET d == DevChunk(bytes_from_device)
              o == hist'.wres[i] IN
            /\ vports[i].alive <=> o # "none"
            /\ o = "ok" => pty_out'[i] = pty_out[i] \o d
            /\ o = "partial" =>
                 \E p \in Prefixes(d) \ {<<>>, d} : pty_out'[i] = pty_out[i] \o p
            /\ o \in {"EAGAIN", "EIO", "OTHER", "none"} => pty_out'[i] = pty_out[i]]_vars

\* a chunk has been broadcast: an Idle endpoint holds it in full while the
\* write on another endpoint raised would-block and left nothing
C1_Witness ==
  \E i, j \in VPORTS :
    /\ Len(vports) = NumVports
    /\ vports[i].alive /\ vports[i].idle /\ pty_out[i] = DevChunk(0)
    /\ hist.wres[j] = "EAGAIN" /\ pty_out[j] = <<>> /\ vports[j].alive

\* C2 (as stated): every chunk read from an endpoint in the dispatch step is on
\* the device's outgoing stream, in read order, also when the device write
\* fails and the device is reconnected.
C2_EndpointToDevice == dev_out = hist.read_log

\* C3: no endpoint is Dead at a readiness wait, and an endpoint leaves Dead
\* only through the recreation of the sweep, which leaves it Alive and Idle.
C3_DeadNeverPersists ==
  /\ [](pc = "wait" => AllAlive)
  /\ [][\A i \in 1..Len(vports) :
          (~vports[i].alive /\ vports'[i].alive) =>
             pc = "cv_finish" /\ vports'[i].idle]_vars

\* an endpoint killed by a failed broadcast write is Alive and Idle at the
\* next readiness wait
C3_Witness ==
  /\ pc = "wait"
  /\ \E i \in VPORTS : hist.wres[i] = "OTHER" /\ vports[i].alive /\ vports[i].idle

\* C4 (as stated): no read and no write is made on the handle of an endpoint
\* while it is Dead.
C4_NoIoWhileDead == ~hist.dead_io

\* C5 (as stated): an endpoint goes Idle->Active only while a client has its
\* peer side open, Active->Idle only once no client has, and neither
\* transition marks it Dead.
C5_ActiveIffClient ==
  [][\A i \in 1..Len(vports) :
       /\ (vports[i].alive /\ vports[i].idle /\ vports'[i].alive /\ ~vports'[i].idle)
             => client[i]
       /\ (vports[i].alive /\ ~vports[i].idle /\ vports'[i].idle)
             => ~client[i] /\ vports'[i].alive]_vars

\* C6: while the device is being reconnected the stale handle is closed; the
\* reconnection changes no endpoint record, no controller handle and no
\* alias; and it ends only with an open device handle, the loop going on
\* with the rest of the iteration.
C6_Reconnect ==
  /\ [](pc = "reconnect" => ser = "closed" /\ ~IsOpen(fdtab, ser_handle))
  /\ [][((pc = "reconnect" \/ pc' = "reconnect") /\ pc' # "exited") =>
          /\ vports' = vports
          /\ OpenMasters(fdtab') = OpenMasters(fdtab)
          /\ links' = links]_vars
  /\ [][(pc = "reconnect" /\ pc' \notin {"reconnect", "exited"}) =>
          /\ ser' = "open" /\ IsOpen(fdtab', ser_handle')
          /\ pc' \in {"probe", "sweep", "wait"}]_vars

\* the loop is back at the readiness wait with an open device after a device
\* write failed, with an endpoint still Active
C6_Witness ==
  /\ pc = "wait" /\ ser = "open"
  /\ hist.read_log # dev_out
  /\ \E i \in VPORTS : vports[i].alive /\ ~vports[i].idle

\* C7 (as stated): an I/O error on an endpoint never ends the scheduler loop,
\* also when the rebuild of the endpoint fails.
C7_EndpointErrorIsolated ==
  ~(pc = "crashed" /\ global_vports = "vports" /\ hist.cause \in {"openpty", "symlink"})

\* C8: the descriptors handed to select are the device handle and the
\* controller handles of the endpoints Alive and Active at that moment, each
\* once; the handle of an Idle or Dead endpoint is not among them.
C8_WaitSet ==
  [][(pc = "wait" /\ pc' = "dispatch") =>
       LET W == Range(watch_fds') IN
         /\ W = (IF ser \in {"open", "stale"} THEN {ser_handle} ELSE {})
                  \cup {vports[i].master_fd :
                          i \in {j \in VPORTS : vports[j].alive /\ ~vports[j].idle}}
         /\ Len(watch_fds') = Cardinality(W)
         /\ \A i \in VPORTS :
              (vports[i].idle \/ ~vports[i].alive) => vports[i].master_fd \notin W]_vars

\* select was handed the device and one Active endpoint while another
\* endpoint is Idle
C8_Witness ==
  /\ pc = "dispatch"
  /\ Len(watch_fds) = 2
  /\ \E i, j \in VPORTS :
       /\ vports[i].alive /\ vports[i].idle /\ vports[i].master_fd \notin Range(watch_fds)
       /\ vports[j].alive /\ ~vports[j].idle /\ vports[j].master_fd \in Range(watch_fds)

\* C9 (as stated): once the loop runs, a termination request ends the process
\* with every controller handle and the device handle closed, every alias
\* removed, and status 0.
C9_Shutdown ==
  (pc = "exited" /\ global_vports = "vports") =>
     /\ OpenMasters(fdtab) = {}
     /\ ~IsOpen(fdtab, ser_handle)
     /\ \A i \in VPORTS : ~links[i]
     /\ exit_status = 0

\* C10 (as stated): wherever the termination request finds the main thread,
\* the process exits with no alias published and no controller handle open.
C10_ShutdownAnywhere ==
  pc = "exited" => (\A i \in VPORTS : ~links[i]) /\ OpenMasters(fdtab) = {}

\* C11 (as stated): when select fails with an error other than EINTR the
\* process ends only after the cleanup: no controller handle is left open and
\* no alias is left published.
C11_WaitFailureCleansUp ==
  (pc = "crashed" /\ hist.cause = "select") =>
     /\ OpenMasters(fdtab) = {}
     /\ \A i \in VPORTS : ~links[i]

C13_HandledNotProbed ==
  [][(pc = "probe" /\ pc' \notin {"probe", "exited"}) =>
        \A i \in hist.idled : vports'[i] = vports[i]]_vars

\* C14 (as stated): every change of an endpoint's (alive, idle) pair is a
\* transition of the table: a new record is Alive and Idle; Idle -> Active
\* only in the probe step; Active -> Idle only by a dispatch read on that
\* endpoint that finds the peer side closed and nothing buffered; Alive ->
\* Dead; Dead -> Alive and Idle only by recreation, the idle flag of a Dead
\* record staying as it is until then.  A dispatch read that would block (a
\* client attached, nothing buffered, no error raised) changes nothing.
C14_TransitionTable ==
  [][/\ Len(vports') > Len(vports) =>
          vports'[Len(vports')].alive /\ vports'[Len(vports')].idle
     /\ \A i \in 1..Len(vports) :
          LET v == vports[i]
              w == vports'[i]
              read == pc = "dispatch" /\ pc' # "exited" /\ readable # <<>>
                        /\ Head(readable) = v.master_fd IN
            /\ (v.alive # w.alive \/ v.idle # w.idle) =>
                  \/ v.alive /\ v.idle /\ w.alive /\ ~w.idle /\ pc = "probe"
                  \/ v.alive /\ ~v.idle /\ w.alive /\ w.idle
                       /\ read /\ ~client[i] /\ pending[i] = <<>>
                  \/ v.alive /\ ~w.alive
                  \/ ~v.alive /\ w.alive /\ w.idle /\ pc = "cv_finish"
            /\ (read /\ client[i] /\ pending[i] = <<>> /\ hist'.events = hist.events)
                  => w = v]_vars

\* C15: in a broadcast a write that raises EAGAIN or EIO leaves its endpoint
\* as it is, Alive, with nothing added to its stream; a write that raises
\* another error marks its endpoint Dead, and no other endpoint goes Dead; in
\* both cases the write is still attempted on every endpoint that was Alive
\* when the chunk was read.
C15_BroadcastWriteErrors ==
  [][ChunkRead =>
        \A i \in VPORTS :
          LET o == hist'.wres[i] IN
            /\ vports[i].alive => o # "none"
            /\ o \in {"EAGAIN", "EIO"} =>
                  vports'[i] = vports[i] /\ pty_out'[i] = pty_out[i]
            /\ o = "OTHER" => ~vports'[i].alive
            /\ (vports[i].alive /\ ~vports'[i].alive) => o = "OTHER"
            /\ vports'[i].idle = vports[i].idle]_vars

\* a broadcast whose write raised on one endpoint (EIO: still Alive; another
\* error: Dead) and gave the chunk to an endpoint later in the list
C15_Witness ==
  \E j, k \in VPORTS :
    /\ Len(vports) = NumVports
    /\ j < k
    /\ \/ hist.wres[j] = "EIO" /\ vports[j].alive
       \/ hist.wres[j] = "OTHER" /\ ~vports[j].alive
    /\ pty_out[j] = <<>>
    /\ hist.wres[k] = "ok" /\ pty_out[k] = DevChunk(0)

\* C16 (as stated): at most one endpoint's chunk is written to the device per
\* loop iteration: when a chunk is written, none was written before it in the
\* same iteration.
C16_FirstWriterWins ==
  [][dev_out' # dev_out => hist.fwd = {}]_vars

\* C16 (amended): the readable endpoints are processed in the order select
\* reported them and the chunk read from each is written to the device, whole,
\* in that order; a chunk written does not end the dispatch of the iteration,
\* which goes on with the next descriptor reported, so several endpoints'
\* chunks can reach the device in one iteration.
C16_EveryWriterForwarded ==
  [][(pc = "dispatch" /\ readable # <<>> /\ Head(readable) # ser_fd
        /\ pc' # "exited" /\ (pc' # pc \/ readable' # readable)) =>
       LET i == fdtab[Head(readable)][2] IN
         /\ (pending[i] # <<>> /\ ser = "open" /\ hist'.events = hist.events) =>
               dev_out' = dev_out \o Take(pending[i], CHUNK)
         /\ dev_out' # dev_out =>
               IF Tail(readable) # <<>>
                 THEN pc' = "dispatch" /\ readable' = Tail(readable)
                 ELSE pc' # "dispatch"]_vars

\* two endpoints' chunks have been written to the device in the iteration
\* under way, in the order of their descriptors, and a third descriptor is
\* still to process
C16_Witness ==
  /\ pc = "dispatch" /\ readable # <<>>
  /\ Cardinality(hist.fwd) = 2
  /\ Len(dev_out) = 2 /\ dev_out = hist.read_log

\* C17: the open controller handles are never more than the configured
\* paths, and at every readiness wait each slot i holds a record whose handle
\* is open on the PTY published at the i-th path, these being all the open
\* controller handles.
C17_NoDescriptorLeak ==
  /\ Cardinality(OpenMasters(fdtab)) <= NumVports
  /\ pc = "wait" =>
       /\ Len(vports) = NumVports
       /\ \A i \in VPORTS : vports[i].master_fd \in Fds
                              /\ fdtab[vports[i].master_fd] = <<"m", i>>
       /\ Cardinality(OpenMasters(fdtab)) = NumVports
       /\ \A i \in VPORTS : links[i]

\* the loop is back at the readiness wait after an endpoint that a failed
\* broadcast write left Dead was recreated in its slot, its PTY a fresh one
C17_Witness ==
  /\ pc = "wait"
  /\ \E i \in VPORTS : hist.wres[i] = "OTHER" /\ pty_out[i] = <<>>
                         /\ fdtab[vports[i].master_fd] = <<"m", i>>
  /\ \E j \in VPORTS : pty_out[j] # <<>>

Retrying == pc \in {"open_serial", "reconnect"}

\* C18: open_serial returns only with an open device handle, never ends the
\* process on a failed open, changes no endpoint, no stream and no counter
\* while it retries, and returns once the device stays present.
C18_OpenWithRetry ==
  /\ [][(Retrying /\ pc' \notin {"open_serial", "reconnect", "exited"}) =>
          /\ ser' = "open"
          /\ ser_handle' \in Fds /\ fdtab'[ser_handle'] = <<"ser", 0>>]_vars
  /\ [][Retrying => pc' # "crashed"]_vars
  /\ [][(Retrying /\ pc' \in {"open_serial", "reconnect"}) =>
          /\ vports' = vports
          /\ dev_out' = dev_out /\ pty_out' = pty_out
          /\ bytes_from_device' = bytes_from_device
          /\ bytes_to_device' = bytes_to_device]_vars
  /\ (<>[]devPresent) => (Retrying ~> ~Retrying)

\* open_serial is retrying with the device absent while a client's byte
\* waits on an Active endpoint
C18_Witness ==
  /\ pc = "reconnect" /\ ~devPresent
  /\ \E i \in VPORTS : vports[i].alive /\ ~vports[i].idle /\ pending[i] # <<>>

\* C19 (as stated): every byte the main thread takes out of an endpoint's
\* PTY, in the dispatch step or in the probe, is appended to the device's
\* outgoing stream in the same step.
C19_NoByteConsumedUnrelayed ==
  [][(pc \in {"dispatch", "probe"} /\ pc' # "exited") =>
       \A i \in VPORTS :
         Len(pending'[i]) < Len(pending[i]) =>
           dev_out' = dev_out \o SubSeq(pending[i], 1, Len(pending[i]) - Len(pending'[i]))]_vars

\* C20 (as stated): at every iteration boundary bytes_to_device is the number
\* of bytes written to the device and bytes_from_device the number of bytes
\* read from it and broadcast.
C20_CounterAccuracy ==
  pc = "wait" =>
    /\ bytes_to_device = hist.dwritten
    /\ bytes_from_device = hist.dread
====
